---- MODULE Spec2Model ----
(***************************************************************************)
(* Model of bl_ttest_gui_app_1.0.py: a Streamlit script that loads a       *)
(* table, lets the user pick two columns, a tail mode and a significance   *)
(* level, and on a button press runs a Welch t-test, renders the result,   *)
(* draws a shared-bin histogram and offers a spreadsheet for download.     *)
(*                                                                         *)
(* Numbers.  The script computes in IEEE doubles.  The model computes in   *)
(* exact rationals extended with NaN and +-inf, so 0/0 is NaN and x/0 is   *)
(* +-inf as in numpy.  Rounding error of doubles is not modelled.          *)
(* Irrational results (the square root in se, the Student-t quantile and   *)
(* the confidence bounds built from it) are kept as terms over exact       *)
(* rationals.  The two-sided p-value returned by scipy is drawn from the   *)
(* values scipy can return for the t-statistic at hand.                    *)
(***************************************************************************)
EXTENDS Integers, Sequences, FiniteSets, TLC

\* ---------------------------------------------------------------- bounds
\* Every two-column table of MaxRows rows with cells missing or in 0..MaxVal
\* can be uploaded, besides the example tables below.
MaxRows == 1
MaxVal == 1

\* ------------------------------------------------------ program constants
\* bins=20 in np.histogram_bin_edges.
NumBins == 20
\* st.slider("...", 0.001, 0.10, 0.05, step=0.001): alpha in thousandths.
AlphaDefault == 50
AlphaMax == 100

\* -------------------------------------------------------------------- state
VARIABLES
    df,          \* the uploaded table, NoFile before an upload
    col1, col2,  \* the selected columns, as positions in df.names
    tail_type,   \* the selected tail mode
    alpha,       \* the selected significance level, in thousandths
    pc,          \* where the script stands
    data1, data2,
    t_stat,
    p_two,       \* the p-value as ttest_ind returned it
    p_val,       \* the reported p-value
    diff, se, df_w, t_crit, ci_low, ci_high,
    screen,      \* what the page shows below the widgets, in order
    bins, hist1, hist2, bin_labels,
    output,      \* the spreadsheet buffer
    download,    \* the download button, once offered
    prev         \* what the previous completed run on the same table,
                 \* columns and alpha computed, and in which tail mode

widgets == <<df, col1, col2, tail_type, alpha>>

samples == <<data1, data2>>

statistics == <<t_stat, p_two, p_val, diff, se, df_w, t_crit, ci_low, ci_high>>

histogram == <<bins, hist1, hist2, bin_labels>>

vars == <<widgets, pc, samples, statistics, screen, histogram, output, download, prev>>

\* ------------------------------------------------------- extended rationals
RECURSIVE GCD(_, _)
GCD(a, b) == IF b = 0 THEN a ELSE GCD(b, a % b)

Abs(x) == IF x < 0 THEN -x ELSE x

Sign(x) == IF x > 0 THEN 1 ELSE IF x < 0 THEN -1 ELSE 0

NaN == [k |-> "nan", n |-> 0, d |-> 1]

Inf(s) == [k |-> IF s > 0 THEN "inf" ELSE "-inf", n |-> 0, d |-> 1]

\* F(x, y) and F(x), with the arguments evaluated once, before F is applied.
Strict(x, y, F(_, _)) == CHOOSE r \in {F(a, b) : a \in {x}, b \in {y}} : TRUE

Let(x, F(_)) == CHOOSE r \in {F(a) : a \in {x}} : TRUE

\* The rational n/d (d # 0) in lowest terms with a positive denominator.
Rat(n, d) ==
    Strict(n, d, LAMBDA a, b :
        LET g == GCD(Abs(a), Abs(b))
            s == IF b < 0 THEN -1 ELSE 1
        IN  [k |-> "num", n |-> (s * a) \div g, d |-> (s * b) \div g])

FromInt(i) == Rat(i, 1)

IsNum(x) == x.k = "num"

RAdd(x, y) ==
    Strict(x, y, LAMBDA a, b :
        IF IsNum(a) /\ IsNum(b) THEN Rat(a.n * b.d + b.n * a.d, a.d * b.d) ELSE NaN)

RSub(x, y) ==
    Strict(x, y, LAMBDA a, b :
        IF IsNum(a) /\ IsNum(b) THEN Rat(a.n * b.d - b.n * a.d, a.d * b.d) ELSE NaN)

RMul(x, y) ==
    Strict(x, y, LAMBDA a, b :
        IF IsNum(a) /\ IsNum(b) THEN Rat(a.n * b.n, a.d * b.d) ELSE NaN)

\* numpy float division: 0/0 is NaN, x/0 is +-inf, NaN propagates.
RDiv(x, y) ==
    Strict(x, y, LAMBDA a, b :
        IF ~(IsNum(a) /\ IsNum(b)) THEN NaN
        ELSE IF b.n = 0 THEN (IF a.n = 0 THEN NaN ELSE Inf(a.n))
        ELSE Rat(a.n * b.d, a.d * b.n))

\* Comparisons are false as soon as one side is NaN.
RGt(x, y) == IsNum(x) /\ IsNum(y) /\ x.n * y.d > y.n * x.d

RLt(x, y) == RGt(y, x)

RGe(x, y) == IsNum(x) /\ IsNum(y) /\ x.n * y.d >= y.n * x.d

RLe(x, y) == RGe(y, x)

\* ------------------------------------------------------------------ tables
NaCell == [k |-> "na", v |-> 0]

Num(v) == [k |-> "num", v |-> v]

StrCell == [k |-> "str", v |-> 0]

NumCol(vals) == [i \in 1..Len(vals) |-> Num(vals[i])]

ColumnNames == <<"A", "B">>

\* A table as pd.read_csv / pd.read_excel returns it: named columns of
\* equal length whose cells are numbers or missing (or text).
MkTable(cs) == [names |-> SubSeq(ColumnNames, 1, Len(cs)), cols |-> cs]

Cells == {NaCell} \cup {Num(v) : v \in 0..MaxVal}

Columns == [1..MaxRows -> Cells]

EnumTables == {MkTable(<<a, b>>) : a \in Columns, b \in Columns}

\* The two scenarios of the specification.
ScenarioMeans == MkTable(<<NumCol(<<10, 12, 11, 13, 12>>), NumCol(<<15, 16, 14, 17, 15>>)>>)

ScenarioDegenerate == MkTable(<<NumCol(<<5, 5, 5, 5>>), NumCol(<<5, 5, 5, 5>>)>>)

\* Missing values at different rows, samples of sizes 3 and 2.
GapsTable ==
    MkTable(<<<<Num(3), NaCell, Num(1), Num(4)>>, <<NaCell, Num(2), Num(7), NaCell>>>>)

\* One constant sample.
ConstantColumnTable == MkTable(<<NumCol(<<0, 0>>), NumCol(<<0, 1>>)>>)

\* Equal means, and a value in the middle of the combined range.
EqualMeansTable == MkTable(<<NumCol(<<0, 2>>), NumCol(<<1, 1>>)>>)

\* Two different positive variances.
SpreadTable == MkTable(<<NumCol(<<0, 1>>), NumCol(<<0, 2>>)>>)

OneColumnTable == MkTable(<<NumCol(<<1, 2, 4>>)>>)

TextTable == MkTable(<<NumCol(<<1, 2>>), <<StrCell, StrCell>>>>)

ExampleTables ==
    {ScenarioMeans, ScenarioDegenerate, GapsTable, ConstantColumnTable,
     EqualMeansTable, SpreadTable, OneColumnTable, TextTable}

Tables == EnumTables \cup ExampleTables

NoFile == [names |-> <<>>, cols |-> <<>>]

NCols(t) == Len(t.cols)

\* ------------------------------------------------------------------ samples
IsPresent(c) == c.k # "na"

\* Series.dropna(): the non-missing cells, in order.
DropNa(col) == SelectSeq(col, IsPresent)

IsNumeric(data) == \A i \in 1..Len(data) : data[i].k = "num"

RECURSIVE SumTo(_, _)
SumTo(data, i) == IF i = 0 THEN 0 ELSE data[i].v + SumTo(data, i - 1)

Sum(data) == SumTo(data, Len(data))

RECURSIVE SumSqTo(_, _)
SumSqTo(data, i) == IF i = 0 THEN 0 ELSE data[i].v * data[i].v + SumSqTo(data, i - 1)

SumSq(data) == SumSqTo(data, Len(data))

\* Series.mean(): NaN for an empty series.
Mean(data) == IF Len(data) = 0 THEN NaN ELSE Rat(Sum(data), Len(data))

\* np.var(data, ddof=1): NaN with fewer than two values.
Var(data) ==
    IF Len(data) < 2 THEN NaN
    ELSE Rat(Len(data) * SumSq(data) - Sum(data) * Sum(data),
             Len(data) * (Len(data) - 1))

\* var/len, the squared standard error of one sample mean.
VarOverN(data) == RDiv(Var(data), FromInt(Len(data)))

\* ------------------------------------------------------ Welch t-test engine
\* Variant: the means subtracted the other way round.
MeanDiffSwapped(d1, d2) == RSub(Mean(d1), Mean(d2))

\* diff = data2.mean() - data1.mean().
MeanDiff(d1, d2) == RSub(Mean(d2), Mean(d1))

\* The square of se: var(data2)/n2 + var(data1)/n1.
SeSquared(d1, d2) == RAdd(VarOverN(d2), VarOverN(d1))

\* se = np.sqrt(...), kept as the square root of an exact rational.
Sqrt(x) == [sqrt_of |-> x]

\* Variant: the sample sizes, not the sizes less one, under the squares.
WelchDfBiased(d1, d2) ==
    LET se2 == RAdd(VarOverN(d2), VarOverN(d1))
        vn1 == VarOverN(d1)
        vn2 == VarOverN(d2)
    IN  RDiv(RMul(se2, se2),
             RAdd(RDiv(RMul(vn2, vn2), FromInt(Len(d2))),
                  RDiv(RMul(vn1, vn1), FromInt(Len(d1)))))

\* df_w = se**4 / ((var2/n2)**2/(n2-1) + (var1/n1)**2/(n1-1)).
WelchDf(d1, d2) ==
    LET se2 == SeSquared(d1, d2)
        vn1 == VarOverN(d1)
        vn2 == VarOverN(d2)
    IN  RDiv(RMul(se2, se2),
             RAdd(RDiv(RMul(vn2, vn2), FromInt(Len(d2) - 1)),
                  RDiv(RMul(vn1, vn1), FromInt(Len(d1) - 1))))

\* The statistic of stats.ttest_ind(data2, data1, equal_var=False):
\* (mean2 - mean1) / sqrt(var2/n2 + var1/n1), kept as its sign and square.
TStatistic(d1, d2) ==
    Strict(MeanDiff(d1, d2), SeSquared(d1, d2), LAMBDA d, s2 :
        LET q == RDiv(RMul(d, d), s2)
        IN  IF q.k = "nan" THEN [k |-> "nan", sgn |-> 0, sq |-> NaN]
            ELSE IF q.k = "inf" THEN [k |-> Inf(d.n).k, sgn |-> Sign(d.n), sq |-> NaN]
            ELSE [k |-> "num", sgn |-> Sign(d.n), sq |-> q])

\* The two-sided p-values scipy can return for a statistic: NaN for NaN, 0
\* for an infinite one, 1 for 0, and a value strictly between otherwise.
PValues(t) ==
    CASE t.k = "nan" -> {NaN}
      [] t.k = "inf" -> {FromInt(0)}
      [] t.k = "-inf" -> {FromInt(0)}
      [] OTHER -> IF t.sgn = 0 THEN {FromInt(1)} ELSE {Rat(1, 100), Rat(1, 2)}

AlphaOf(a) == Rat(a, 1000)

\* Variant: a one-sided quantile, 1 - alpha, in the one-sided mode.
QuantileByTail(a) ==
    IF tail_type = "one-sided" THEN RSub(FromInt(1), AlphaOf(a))
    ELSE RSub(FromInt(1), RDiv(AlphaOf(a), FromInt(2)))

\* The probability handed to the quantile function: 1 - alpha/2.
Quantile(a) == RSub(FromInt(1), RDiv(AlphaOf(a), FromInt(2)))

NaNTerm == [k |-> "nan", q |-> NaN, df |-> NaN]

\* stats.t.ppf(q, df): a term in q and df, NaN when df is.
TPpf(q, dfw) == IF IsNum(dfw) THEN [k |-> "t.ppf", q |-> q, df |-> dfw] ELSE NaNTerm

NaNBound == [k |-> "nan", center |-> NaN, crit |-> NaNTerm, width |-> Sqrt(NaN), side |-> 0]

\* diff + side * t_crit * se.
CiBound(d, tc, s, side) ==
    IF IsNum(d) /\ tc.k # "nan" /\ IsNum(s.sqrt_of)
    THEN [k |-> "term", center |-> d, crit |-> tc, width |-> s, side |-> side]
    ELSE NaNBound

\* p_val / 2 if diff > 0 else 1 - (p_val / 2), for the one-sided mode.
OneSidedP(p, d) ==
    IF RGt(d, FromInt(0)) THEN RDiv(p, FromInt(2))
    ELSE RSub(FromInt(1), RDiv(p, FromInt(2)))

TailTypes == {"two-sided", "one-sided"}

\* if tail_type.startswith("one-sided") ...
ReportedP(p, d, tail) == IF tail = "one-sided" THEN OneSidedP(p, d) ELSE p

\* ---------------------------------------------------------------- histogram
\* Bin edges and sample values are held in units of 1/(2*NumBins), in which
\* the edges of NumBins equal-width bins over a range with half-integer ends
\* are integers.
BinScale == 2 * NumBins

Concat(d1, d2) == d1 \o d2

Values(data) == {data[i].v : i \in 1..Len(data)}

Min(data) == CHOOSE m \in Values(data) : \A v \in Values(data) : m <= v

Max(data) == CHOOSE m \in Values(data) : \A v \in Values(data) : m >= v

\* The outer edges numpy picks, doubled: (0, 1) for no data, (min - 0.5,
\* max + 0.5) when min = max, (min, max) otherwise.
OuterEdges(data) ==
    IF Len(data) = 0 THEN <<0, 2>>
    ELSE IF Min(data) = Max(data) THEN <<2 * Min(data) - 1, 2 * Max(data) + 1>>
    ELSE <<2 * Min(data), 2 * Max(data)>>

\* np.histogram_bin_edges(data, bins=20): np.linspace(first, last, 21).
HistogramBinEdges(data) ==
    Let(OuterEdges(data), LAMBDA o :
        [i \in 1..(NumBins + 1) |-> NumBins * o[1] + (i - 1) * (o[2] - o[1])])

\* Variant: every bin half-open, the last one too.
InBinHalfOpen(x, edges, i) == edges[i] <= x /\ x < edges[i + 1]

\* Bin i is [edge i, edge i+1), and the last bin also holds its right edge.
InBin(x, edges, i) ==
    /\ edges[i] <= x
    /\ \/ x < edges[i + 1]
       \/ i = Len(edges) - 1 /\ x = edges[i + 1]

\* np.histogram(data, bins=edges)[0].
Histogram(data, edges) ==
    [i \in 1..(Len(edges) - 1) |->
        Cardinality({j \in 1..Len(data) : InBin(BinScale * data[j].v, edges, i)})]

\* int(x) for x = e/BinScale: truncation toward zero.
IntTrunc(e) == IF e >= 0 THEN e \div BinScale ELSE -((-e) \div BinScale)

\* f"{int(bins[i])}-{int(bins[i+1])}", as the pair of the two integers.
BinLabels(edges) ==
    [i \in 1..(Len(edges) - 1) |-> <<IntTrunc(edges[i]), IntTrunc(edges[i + 1])>>]

\* ---------------------------------------------------------------- rendering
\* n/d (d > 0) rounded to the nearest integer, ties to even.
RoundHalfEven(n, d) ==
    LET q == n \div d
        r == n % d
    IN  IF 2 * r < d THEN q
        ELSE IF 2 * r > d THEN q + 1
        ELSE IF q % 2 = 0 THEN q ELSE q + 1

\* f"{x:.1f}" (scale 10) and f"{x:.2f}" (scale 100): the decimal shown.
Fixed(x, scale) == IF IsNum(x) THEN Rat(RoundHalfEven(x.n * scale, x.d), scale) ELSE x

RECURSIVE Sig3Scale(_, _)
Sig3Scale(x, s) == IF x.n * s >= 100 * x.d THEN s ELSE Sig3Scale(x, 10 * s)

\* f"{x:.3g}" and f"{x:.2e}" for 0 <= x <= 1: three significant digits.
Sig3(x) ==
    IF ~IsNum(x) \/ x.n = 0 THEN x
    ELSE LET s == Sig3Scale(x, 1) IN Rat(RoundHalfEven(x.n * s, x.d), s)

\* The result heading and the three st.write lines under it.
ResultLines(d, p, a, lo, hi) ==
    << [kind |-> "heading", body |-> "result"],
       [kind |-> "diff", body |-> Fixed(d, 100)],
       [kind |-> "p", body |-> Sig3(p)],
       [kind |-> "ci", body |-> [level |-> Fixed(RMul(FromInt(100), RSub(FromInt(1), AlphaOf(a))), 10),
                                 low |-> lo, high |-> hi]] >>

\* The generated comment: an f-string whose fixed text says that group 2 is
\* higher, that p is well below alpha and that the difference is
\* statistically significant.
Comment(n1, n2, d, p, a, tail) ==
    [kind |-> "comment",
     body |-> [col1 |-> n1, col2 |-> n2, higher_by |-> Fixed(d, 10), p |-> Sig3(p),
               alpha |-> Fixed(AlphaOf(a), 100), tail |-> tail,
               p_below_alpha |-> TRUE, significant |-> TRUE]]

\* The figure: both samples drawn over the same edges, with the two means.
Figure(n1, n2, d1, d2, edges) ==
    [kind |-> "figure",
     body |-> [edges |-> edges,
               bars1 |-> Histogram(d1, edges), label1 |-> <<n1, Len(d1)>>,
               bars2 |-> Histogram(d2, edges), label2 |-> <<n2, Len(d2)>>,
               mean1 |-> Mean(d1), mean2 |-> Mean(d2)]]

\* ------------------------------------------------------------------- export
NRows(t) == IF NCols(t) = 0 THEN 0 ELSE Len(t.cols[1])

\* to_excel writes a missing value as an empty cell.
ExcelCell(c) == IF c.k = "na" THEN [k |-> "blank", v |-> 0] ELSE c

\* Variant: only the rows complete in both columns are written.
RawSheetCompleteRows(t, c1, c2) ==
    LET RECURSIVE Pick(_)
        Pick(r) ==
            IF r = 0 THEN <<>>
            ELSE IF t.cols[c1][r].k # "na" /\ t.cols[c2][r].k # "na"
                 THEN Append(Pick(r - 1), <<t.cols[c1][r], t.cols[c2][r]>>)
                 ELSE Pick(r - 1)
    IN  [header |-> <<t.names[c1], t.names[c2]>>, rows |-> Pick(NRows(t))]

\* df[[col1, col2]].to_excel(writer, sheet_name=..., index=False).
RawSheet(t, c1, c2) ==
    [header |-> <<t.names[c1], t.names[c2]>>,
     rows |-> [r \in 1..NRows(t) |-> <<ExcelCell(t.cols[c1][r]), ExcelCell(t.cols[c2][r])>>]]

\* pd.DataFrame({"class": bin_labels, col1: hist1, col2: hist2}).to_excel:
\* with col1 = col2 the dict has one frequency key, holding hist2.
HistSheet(n1, n2, labels, h1, h2) ==
    IF n1 = n2
    THEN [header |-> <<"class", n2>>,
          rows |-> [i \in 1..Len(labels) |-> <<labels[i], h2[i]>>]]
    ELSE [header |-> <<"class", n1, n2>>,
          rows |-> [i \in 1..Len(labels) |-> <<labels[i], h1[i], h2[i]>>]]

\* The column chart: two series over rows 1..len(bin_labels) of the
\* histogram sheet, categories in column 0, values in columns 1 and 2.
Chart(n1, n2, labels) ==
    [type |-> "column", anchor |-> "E2",
     title |-> "histogram of the two groups", x_axis |-> "class", y_axis |-> "frequency",
     series |-> << [name |-> n1, rows |-> <<1, Len(labels)>>, categories |-> 0, values |-> 1],
                   [name |-> n2, rows |-> <<1, Len(labels)>>, categories |-> 0, values |-> 2] >>]

\* The workbook written into the BytesIO buffer.
Workbook(t, c1, c2, labels, h1, h2) ==
    [written |-> TRUE,
     raw |-> RawSheet(t, c1, c2),
     hist |-> HistSheet(t.names[c1], t.names[c2], labels, h1, h2),
     autofilter |-> <<0, 0, Len(labels), 2>>,
     freeze_panes |-> <<1, 0>>,
     column_width |-> [i \in 1..(IF t.names[c1] = t.names[c2] THEN 2 ELSE 3) |-> 15],
     chart |-> Chart(t.names[c1], t.names[c2], labels)]

NoWorkbook ==
    [written |-> FALSE,
     raw |-> [header |-> <<>>, rows |-> <<>>],
     hist |-> [header |-> <<>>, rows |-> <<>>],
     autofilter |-> <<>>, freeze_panes |-> <<>>, column_width |-> <<>>,
     chart |-> [type |-> "none", anchor |-> "", title |-> "", x_axis |-> "",
                y_axis |-> "", series |-> <<>>]]

\* ------------------------------------------------------------ unset values
Unset == [k |-> "unset", n |-> 0, d |-> 1]

UnsetT == [k |-> "unset", sgn |-> 0, sq |-> Unset]

UnsetTerm == [k |-> "unset", q |-> Unset, df |-> Unset]

UnsetBound == [k |-> "unset", center |-> Unset, crit |-> UnsetTerm, width |-> Sqrt(Unset), side |-> 0]

NoDownload == [offered |-> FALSE, data |-> NoWorkbook, file_name |-> ""]

\* The results a run computes whatever the tail mode is meant to be.
Computed ==
    [t_stat |-> t_stat, df_w |-> df_w, diff |-> diff, se |-> se,
     t_crit |-> t_crit, ci_low |-> ci_low, ci_high |-> ci_high]

NoPrev ==
    [tail |-> "none",
     out |-> [t_stat |-> UnsetT, df_w |-> Unset, diff |-> Unset, se |-> Sqrt(Unset),
              t_crit |-> UnsetTerm, ci_low |-> UnsetBound, ci_high |-> UnsetBound]]

\* A rerun of the script starts from an empty page and fresh locals.
FreshRun ==
    /\ data1' = <<>> /\ data2' = <<>>
    /\ t_stat' = UnsetT /\ p_two' = Unset /\ p_val' = Unset
    /\ diff' = Unset /\ se' = Sqrt(Unset) /\ df_w' = Unset
    /\ t_crit' = UnsetTerm /\ ci_low' = UnsetBound /\ ci_high' = UnsetBound
    /\ screen' = <<>>
    /\ bins' = <<>> /\ hist1' = <<>> /\ hist2' = <<>> /\ bin_labels' = <<>>
    /\ output' = NoWorkbook
    /\ download' = NoDownload

Init ==
    /\ df = NoFile /\ col1 = 1 /\ col2 = 1
    /\ tail_type = "two-sided" /\ alpha = AlphaDefault
    /\ pc = "idle"
    /\ data1 = <<>> /\ data2 = <<>>
    /\ t_stat = UnsetT /\ p_two = Unset /\ p_val = Unset
    /\ diff = Unset /\ se = Sqrt(Unset) /\ df_w = Unset
    /\ t_crit = UnsetTerm /\ ci_low = UnsetBound /\ ci_high = UnsetBound
    /\ screen = <<>>
    /\ bins = <<>> /\ hist1 = <<>> /\ hist2 = <<>> /\ bin_labels = <<>>
    /\ output = NoWorkbook
    /\ download = NoDownload
    /\ prev = NoPrev

\* The script is not running: it ended without the button, after a
\* completed run, or on an exception.
AtRest == pc \in {"idle", "done", "error"}

Loaded == df # NoFile

AlphaChoices == {AlphaDefault, AlphaMax}

\* ------------------------------------------------------------- user actions
\* The script runs synchronously from top to bottom on every interaction;
\* the widgets are acted on between two runs.
\* st.file_uploader: a file is uploaded and parsed; the two select boxes
\* start at their default positions.
Upload(t) ==
    /\ AtRest
    /\ df' = t
    /\ col1' = 1
    /\ col2' = IF NCols(t) > 1 THEN 2 ELSE 1
    /\ UNCHANGED <<tail_type, alpha>>
    /\ pc' = "idle"
    /\ FreshRun
    /\ prev' = NoPrev

SelectCol1(c) ==
    /\ AtRest /\ Loaded
    /\ c \in 1..NCols(df) /\ c # col1
    /\ col1' = c
    /\ UNCHANGED <<df, col2, tail_type, alpha>>
    /\ pc' = "idle"
    /\ FreshRun
    /\ prev' = NoPrev

SelectCol2(c) ==
    /\ AtRest /\ Loaded
    /\ c \in 1..NCols(df) /\ c # col2
    /\ col2' = c
    /\ UNCHANGED <<df, col1, tail_type, alpha>>
    /\ pc' = "idle"
    /\ FreshRun
    /\ prev' = NoPrev

SelectTail(t) ==
    /\ AtRest /\ Loaded
    /\ t \in TailTypes /\ t # tail_type
    /\ tail_type' = t
    /\ UNCHANGED <<df, col1, col2, alpha>>
    /\ pc' = "idle"
    /\ FreshRun
    /\ UNCHANGED prev

SetAlpha(a) ==
    /\ AtRest /\ Loaded
    /\ a \in AlphaChoices /\ a # alpha
    /\ alpha' = a
    /\ UNCHANGED <<df, col1, col2, tail_type>>
    /\ pc' = "idle"
    /\ FreshRun
    /\ prev' = NoPrev

\* st.button: the rerun this press triggers enters the if-block.
PressButton ==
    /\ AtRest /\ Loaded
    /\ pc' = "dropna"
    /\ FreshRun
    /\ UNCHANGED <<widgets, prev>>

\* ---------------------------------------------------------- steps of a run
\* data1 = df[col1].dropna(); data2 = df[col2].dropna().
DropMissing ==
    /\ pc = "dropna"
    /\ data1' = DropNa(df.cols[col1])
    /\ data2' = DropNa(df.cols[col2])
    /\ pc' = "stats"
    /\ UNCHANGED <<widgets, statistics, screen, histogram, output, download, prev>>

\* The statistics, from ttest_ind down to the tail adjustment of p_val.
ComputeStatistics ==
    /\ pc = "stats"
    /\ IsNumeric(data1) /\ IsNumeric(data2)
    /\ \E t \in {TStatistic(data1, data2)}, d \in {MeanDiff(data1, data2)},
          s \in {Sqrt(SeSquared(data1, data2))}, w \in {WelchDf(data1, data2)} :
          \E p \in PValues(t), c \in {TPpf(Quantile(alpha), w)} :
             /\ t_stat' = t
             /\ p_two' = p
             /\ diff' = d
             /\ se' = s
             /\ df_w' = w
             /\ t_crit' = c
             /\ ci_low' = CiBound(d, c, s, -1)
             /\ ci_high' = CiBound(d, c, s, 1)
             /\ p_val' = ReportedP(p, d, tail_type)
    /\ pc' = "render"
    /\ UNCHANGED <<widgets, samples, screen, histogram, output, download, prev>>

\* ttest_ind raises on text values; Streamlit shows the exception on the
\* page and the run ends there.
StatisticsRaise ==
    /\ pc = "stats"
    /\ ~(IsNumeric(data1) /\ IsNumeric(data2))
    /\ screen' = Append(screen, [kind |-> "exception", body |-> "ttest_ind"])
    /\ pc' = "error"
    /\ UNCHANGED <<widgets, samples, statistics, histogram, output, download, prev>>

\* The result lines and the generated comment.
RenderResult ==
    /\ pc = "render"
    /\ screen' = screen \o ResultLines(diff, p_val, alpha, ci_low, ci_high)
                        \o << [kind |-> "heading", body |-> "comment"],
                              Comment(df.names[col1], df.names[col2], diff, p_val,
                                      alpha, tail_type) >>
    /\ pc' = "hist"
    /\ UNCHANGED <<widgets, samples, statistics, histogram, output, download, prev>>

\* Shared edges over both samples, the figure, the two frequency arrays
\* and the bin labels.
BuildHistogram ==
    /\ pc = "hist"
    /\ \E edges \in {HistogramBinEdges(Concat(data1, data2))} :
          /\ bins' = edges
          /\ screen' = screen \o << [kind |-> "heading", body |-> "histogram"],
                                     Figure(df.names[col1], df.names[col2],
                                            data1, data2, edges) >>
          /\ hist1' = Histogram(data1, edges)
          /\ hist2' = Histogram(data2, edges)
          /\ bin_labels' = BinLabels(edges)
    /\ pc' = "export"
    /\ UNCHANGED <<widgets, samples, statistics, output, download, prev>>

\* Variant: the workbook is not written and the run goes on.
WriteExportSkipped ==
    /\ pc = "export"
    /\ pc' = "download"
    /\ UNCHANGED <<widgets, samples, statistics, screen, histogram, output, download, prev>>

\* with pd.ExcelWriter(output, ...) as writer: ...
WriteExport ==
    /\ pc = "export"
    /\ output' = Workbook(df, col1, col2, bin_labels, hist1, hist2)
    /\ pc' = "download"
    /\ UNCHANGED <<widgets, samples, statistics, screen, histogram, download, prev>>

\* st.download_button(data=output.getvalue(), ...).
OfferDownload ==
    /\ pc = "download"
    /\ download' = [offered |-> TRUE, data |-> output, file_name |-> "bl_life_histogram.xlsx"]
    /\ screen' = Append(screen, [kind |-> "download_button", body |-> "bl_life_histogram.xlsx"])
    /\ pc' = "success"
    /\ UNCHANGED <<widgets, samples, statistics, histogram, output, prev>>

\* st.success(...): the run is complete.
Success ==
    /\ pc = "success"
    /\ screen' = Append(screen, [kind |-> "success", body |-> "done"])
    /\ prev' = [tail |-> tail_type, out |-> Computed]
    /\ pc' = "done"
    /\ UNCHANGED <<widgets, samples, statistics, histogram, output, download>>

RunStep ==
    \/ DropMissing
    \/ ComputeStatistics
    \/ StatisticsRaise
    \/ RenderResult
    \/ BuildHistogram
    \/ WriteExport
    \/ OfferDownload
    \/ Success

Next ==
    \/ \E t \in Tables : Upload(t)
    \/ \E c \in 1..Len(ColumnNames) : SelectCol1(c)
    \/ \E c \in 1..Len(ColumnNames) : SelectCol2(c)
    \/ \E t \in TailTypes : SelectTail(t)
    \/ \E a \in AlphaChoices : SetAlpha(a)
    \/ PressButton
    \/ DropMissing
    \/ ComputeStatistics
    \/ StatisticsRaise
    \/ RenderResult
    \/ BuildHistogram
    \/ WriteExport
    \/ OfferDownload
    \/ Success

Spec == Init /\ [][Next]_vars

\* A started run is carried through: the script runs to its end.
FairSpec == Spec /\ WF_vars(RunStep)

\* ------------------------------------------------------------- properties
\* The statistics of the current run have been computed.
StatsDone == pc \in {"render", "hist", "export", "download", "success", "done"}

\* The histogram of the current run has been built.
HistDone == pc \in {"export", "download", "success", "done"}

Zero == FromInt(0)

Half == Rat(1, 2)

Smaller(a, b) == IF a < b THEN a ELSE b

RECURSIVE SeqSumTo(_, _)
SeqSumTo(f, i) == IF i = 0 THEN 0 ELSE f[i] + SeqSumTo(f, i - 1)

SeqSum(f) == SeqSumTo(f, Len(f))

Shown(kind) == \E i \in 1..Len(screen) : screen[i].kind = kind

\* C1: in one-sided mode the reported p-value is p_two_sided/2 when
\* diff > 0 and 1 - p_two_sided/2 otherwise, and is then at least 0.5
\* whenever diff <= 0; in two-sided mode it is the two-sided p-value.
C1_TailAdjustment ==
    StatsDone =>
        /\ tail_type = "two-sided" => p_val = p_two
        /\ tail_type = "one-sided" /\ RGt(diff, Zero) => p_val = RDiv(p_two, FromInt(2))
        /\ tail_type = "one-sided" /\ ~RGt(diff, Zero) =>
              p_val = RSub(FromInt(1), RDiv(p_two, FromInt(2)))
        /\ tail_type = "one-sided" /\ RLe(diff, Zero) => RGe(p_val, Half)

\* C2: a run in one tail mode and a run in the other mode on the same
\* table, columns and alpha compute the same t-statistic, degrees of
\* freedom, mean difference, standard error, t-critical value and
\* confidence interval.
C2_TailModeOnlyChangesP ==
    StatsDone /\ prev.tail \in TailTypes /\ prev.tail # tail_type => Computed = prev.out

\* C2 witness: a one-sided run with a numeric result follows a two-sided
\* run on the same inputs, and reports another p-value.
C2_Witness ==
    /\ pc = "success" /\ tail_type = "one-sided" /\ prev.tail = "two-sided"
    /\ IsNum(df_w) /\ t_crit.k = "t.ppf" /\ ci_low.k = "term"
    /\ p_val # p_two

\* C3: a run on a column with fewer than two non-missing values stops
\* with an error shown, and produces no statistics, histogram or workbook.
C3_InsufficientDataRejected ==
    pc \notin {"idle", "dropna", "stats"} /\ (Len(data1) < 2 \/ Len(data2) < 2) =>
        /\ pc = "error"
        /\ Shown("exception")
        /\ p_val = Unset /\ bins = <<>> /\ ~output.written

\* C4: the comment says the difference is significant only when the
\* reported p-value is below alpha.
C4_SignificanceOnlyBelowAlpha ==
    \A i \in 1..Len(screen) :
        screen[i].kind = "comment" /\ screen[i].body.significant =>
            RLt(p_val, AlphaOf(alpha))

\* C5: for two non-empty samples there are 21 increasing edges, shared by
\* both samples, from the combined minimum to the combined maximum (around
\* the single value when all values are equal); each frequency array has
\* length 20 and sums to the size of its sample.
C5_HistogramCountsEverything ==
    HistDone /\ Len(data1) > 0 /\ Len(data2) > 0 =>
        LET all == Concat(data1, data2) IN
        /\ Len(bins) = 21
        /\ \A i \in 1..20 : bins[i] < bins[i + 1]
        /\ bins[1] <= BinScale * Min(all) /\ BinScale * Max(all) <= bins[21]
        /\ Min(all) < Max(all) => bins[1] = BinScale * Min(all) /\ bins[21] = BinScale * Max(all)
        /\ hist1 = Histogram(data1, bins) /\ hist2 = Histogram(data2, bins)
        /\ Len(hist1) = 20 /\ Len(hist2) = 20
        /\ SeqSum(hist1) = Len(data1) /\ SeqSum(hist2) = Len(data2)

\* C5 witness: a histogram of two non-empty samples in which one value is
\* the combined maximum and another lies on an interior edge.
C5_Witness ==
    /\ HistDone /\ Len(data1) > 0 /\ Len(data2) > 0
    /\ \E j \in 1..Len(data1) : BinScale * data1[j].v = bins[21]
    /\ \E j \in 1..Len(data2), i \in 2..20 : BinScale * data2[j].v = bins[i]

SheetColumn(rows, j) == [r \in 1..Len(rows) |-> rows[r][j]]

NotBlank(c) == c.k # "blank"

\* C6: the values in each column of the raw-data sheet, top to bottom, are
\* the non-missing values of the selected column in their original order,
\* that is the sample the test was computed on.
C6_RawSheetRoundTrip ==
    output.written =>
        /\ SelectSeq(SheetColumn(output.raw.rows, 1), NotBlank) = data1
        /\ SelectSeq(SheetColumn(output.raw.rows, 2), NotBlank) = data2
        /\ data1 = SelectSeq(df.cols[col1], IsPresent)
        /\ data2 = SelectSeq(df.cols[col2], IsPresent)
        /\ output.raw.header = <<df.names[col1], df.names[col2]>>

\* C6 witness: a workbook written for two columns with missing values at
\* different rows and different numbers of values.
C6_Witness ==
    /\ output.written /\ col1 # col2
    /\ Len(data1) # Len(data2) /\ Len(data1) > 0 /\ Len(data2) > 0
    /\ \E r \in 1..NRows(df) : df.cols[col1][r].k = "na" /\ df.cols[col2][r].k # "na"
    /\ \E r \in 1..NRows(df) : df.cols[col2][r].k = "na" /\ df.cols[col1][r].k # "na"

\* Both samples have two values or more and their variances differ.
UnequalVariances ==
    /\ StatsDone /\ Len(data1) >= 2 /\ Len(data2) >= 2
    /\ Var(data1) # Var(data2)

\* C7 as stated: with unequal variances df_w is strictly greater than
\* min(n1, n2) - 1 and at most n1 + n2 - 2.
C7_DfInHalfOpenInterval ==
    UnequalVariances =>
        /\ RGt(df_w, FromInt(Smaller(Len(data1), Len(data2)) - 1))
        /\ RLe(df_w, FromInt(Len(data1) + Len(data2) - 2))

\* C7 amended: with unequal variances df_w is at least min(n1, n2) - 1 and
\* at most n1 + n2 - 2, and strictly greater than min(n1, n2) - 1 when both
\* variances are positive.
C7_DfInClosedInterval ==
    UnequalVariances =>
        /\ RGe(df_w, FromInt(Smaller(Len(data1), Len(data2)) - 1))
        /\ RLe(df_w, FromInt(Len(data1) + Len(data2) - 2))
        /\ Var(data1) # Zero /\ Var(data2) # Zero =>
              RGt(df_w, FromInt(Smaller(Len(data1), Len(data2)) - 1))

\* C7 witness: unequal variances, one of them zero, and df_w equal to
\* min(n1, n2) - 1.
C7_Witness ==
    /\ UnequalVariances
    /\ Var(data1) = Zero
    /\ df_w = FromInt(Smaller(Len(data1), Len(data2)) - 1)

\* The run is on the scenario [10,12,11,13,12] against [15,16,14,17,15].
OnScenarioMeans == StatsDone /\ df = ScenarioMeans /\ col1 = 1 /\ col2 = 2

\* C8 as stated: on that scenario the mean difference is 3.
C8_MeanDiffIsThree == OnScenarioMeans => diff = FromInt(3)

\* C8 amended: on that scenario the mean difference is 19/5 = 3.8, shown
\* as 3.80.
C8_MeanDiffIsThreePointEight ==
    OnScenarioMeans =>
        /\ diff = Rat(19, 5)
        /\ \A i \in 1..Len(screen) : screen[i].kind = "diff" => screen[i].body = Rat(380, 100)

\* C8 witness: the scenario's run has rendered its mean difference.
C8_Witness == OnScenarioMeans /\ Shown("diff")

\* Both samples have two values or more and no spread, so that se = 0.
Degenerate ==
    /\ StatsDone /\ Len(data1) >= 2 /\ Len(data2) >= 2
    /\ Var(data1) = Zero /\ Var(data2) = Zero

\* What the page of a normal successful run is made of.
NormalKinds == {"heading", "diff", "p", "ci", "comment", "figure", "download_button", "success"}

\* C9: a completed run on two samples without spread shows something a
\* normal successful run does not show, and no success message.
C9_DegenerateReportedAsSuch ==
    pc = "done" /\ Degenerate =>
        /\ \E i \in 1..Len(screen) : screen[i].kind \notin NormalKinds
        /\ ~Shown("success")

\* The order of the steps of a run: each change of pc is one of these.
StepOrder ==
    pc' # pc =>
        \/ AtRest /\ pc' = "idle"
        \/ AtRest /\ Loaded /\ pc' = "dropna" /\ screen' = <<>>
        \/ pc = "dropna" /\ pc' = "stats"
        \/ pc = "stats" /\ pc' = "render" /\ p_val' # Unset
        \/ pc = "stats" /\ pc' = "error" /\ Shown("exception")'
        \/ pc = "render" /\ pc' = "hist" /\ Shown("comment")'
        \/ pc = "hist" /\ pc' = "export" /\ Len(bins') = NumBins + 1
        \/ pc = "export" /\ pc' = "download" /\ output'.written
        \/ pc = "download" /\ pc' = "success" /\ download'.offered
        \/ pc = "success" /\ pc' = "done" /\ Shown("success")'

\* The download is offered only with the statistics computed and the
\* workbook written, and it is that workbook.
DownloadOnlyWhenComplete ==
    download.offered =>
        /\ p_val # Unset /\ diff # Unset
        /\ output.written /\ download.data = output
        /\ ~Shown("exception")

RunTriggered == pc = "dropna"

RunRendered == pc = "done" /\ Shown("success") /\ download.offered

RunFailed == pc = "error" /\ Shown("exception") /\ ~download.offered

\* C10: a run starts only from a loaded file and a button press, its steps
\* follow the fixed order, every triggered run ends with the success
\* message and the download offered or with an error shown, and the
\* download is never offered without the statistics and the workbook.
C10_RunOrderAndCompletion ==
    /\ [][StepOrder]_vars
    /\ [](pc # "idle" => Loaded)
    /\ []DownloadOnlyWhenComplete
    /\ RunTriggered ~> (RunRendered \/ RunFailed)

\* C10 witness: a run has gone through every step.
C10_Witness == RunRendered /\ Shown("figure") /\ Shown("comment") /\ StatsDone

====
